---- MODULE Spec2Model ----
(***************************************************************************)
(* Model of yasa/others.py: moving_transform, trimbothstd, sliding_window  *)
(* and get_centered_indices.  The four functions are pure; a behaviour of  *)
(* the model is one call: Init draws the function and its arguments, and   *)
(* the function's action computes what the call returns or raises.         *)
(*                                                                         *)
(* Reals.  Seconds, sampling rates and proportions are floats in the       *)
(* source.  The model draws them as fractions num/den with small           *)
(* numerators and computes on the fractions with integers.  Where the      *)
(* denominators are powers of two every float operation of the source on   *)
(* them is exact.  Where double-precision rounding changes an integer the  *)
(* source computes, the change is tabulated from the IEEE-754 evaluation   *)
(* of the source's expression: the window count of sliding_window          *)
(* (FloorLoss), and, for moving_transform at the sampling frequency 3, the *)
(* size of the grid (ArangeGain) and the truncated bounds (TruncLoss).     *)
(***************************************************************************)
EXTENDS Integers, Sequences, FiniteSets

VARIABLES
    fn,      \* the function called
    args,    \* its arguments
    pc,      \* "call" before the call, "done" after it
    locals,  \* moving_transform: the beg and end vectors (lines 80-83)
    ret      \* what the call returned or raised

vars == <<fn, args, pc, locals, ret>>

----------------------------------------------------------------------------
(* Bounds of the model *)

\* longest 1-D buffer
MaxN == 5
\* most events passed to get_centered_indices
MaxEvents == 2
\* largest npts_before / npts_after
MaxSpan == 2
\* largest numerator of a window or step duration
MaxNum == 3
\* largest extent of one axis of a 2-D array given to sliding_window
MaxDim == 3
\* longest 1-D array given to sliding_window
MaxLen == 8
\* largest numerator of a window or step duration given to sliding_window
MaxWin == 5

\* denominators of the durations (window, step) drawn
Dens == {1, 2}
\* sampling frequencies drawn for sliding_window
Sfs == {1, 2}
\* sampling frequencies drawn for moving_transform: at 3, 1 / sf and n / sf
\* are not exact in double precision
MtSfs == {1, 2, 3}
\* sample values drawn
Samples == {-1, 1}

----------------------------------------------------------------------------
(* Helpers: integer and sequence arithmetic *)

Min2(a, b) == IF a <= b THEN a ELSE b
Max2(a, b) == IF a >= b THEN a ELSE b

\* int(a / b) for b > 0: conversion of a float to int truncates toward zero
Trunc(a, b) == IF a >= 0 THEN a \div b ELSE -((-a) \div b)

\* ceil(a / b) for a >= 0, b > 0
CeilDiv(a, b) == (a + b - 1) \div b

RECURSIVE SeqSum(_)
SeqSum(s) == IF s = <<>> THEN 0 ELSE Head(s) + SeqSum(Tail(s))

\* the sequences over S of length lo..hi
SeqsOf(S, lo, hi) == UNION {[1..k -> S] : k \in lo..hi}

\* the subsequence of s at the positions p satisfies keep[p], in order
RECURSIVE Compress(_, _)
Compress(s, keep) ==
    IF s = <<>> THEN <<>>
    ELSE (IF Head(keep) THEN <<Head(s)>> ELSE <<>>)
         \o Compress(Tail(s), Tail(keep))

----------------------------------------------------------------------------
(* get_centered_indices (lines 280-350) *)

\* rng(x): np.arange(x - npts_before, x + npts_after + 1)
rng(x, npts_before, npts_after) ==
    [j \in 1..(npts_before + npts_after + 1) |-> x - npts_before + j - 1]

\* np.apply_along_axis(rng, 1, idx[..., np.newaxis]): one row per event
apply_rng(idx, npts_before, npts_after) ==
    [k \in 1..Len(idx) |-> rng(idx[k], npts_before, npts_after)]

\* np.ma.masked_outside(a, v1, v2): the mask, TRUE where a < v1 or a > v2
masked_outside(a, v1, v2) ==
    [k \in 1..Len(a) |-> [j \in 1..Len(a[k]) |-> a[k][j] < v1 \/ a[k][j] > v2]]

\* np.ma.mask_rows: a row holding a masked value is masked whole
mask_rows(mask) ==
    [k \in 1..Len(mask) |-> \E j \in 1..Len(mask[k]) : mask[k][j]]

\* np.unique(idx_ep.nonzero()[0]): MaskedArray.nonzero() is the nonzero() of
\* filled(0), so a row is listed when it is unmasked and holds a nonzero
\* entry.  Positions are 0-based, in increasing order.
nonzero_rows(a, rowmask) ==
    LET listed == [k \in 1..Len(a) |->
                      ~rowmask[k] /\ \E j \in 1..Len(a[k]) : a[k][j] # 0]
    IN  Compress([k \in 1..Len(a) |-> k - 1], listed)

\* np.ma.compress_rows: the rows without a masked value
compress_rows(a, rowmask) ==
    Compress(a, [k \in 1..Len(a) |-> ~rowmask[k]])

\* the call on a buffer of n samples.  np.apply_along_axis raises ValueError
\* ("Cannot apply_along_axis when any iteration dimensions are 0") on the
\* (0, 1) array an empty idx gives.
get_centered_indices(n, idx, npts_before, npts_after) ==
    IF Len(idx) = 0
    THEN [kind |-> "error", exc |-> "ValueError",
          idx_ep |-> <<>>, idx_ep_nomask |-> <<>>]
    ELSE LET idx_ep  == apply_rng(idx, npts_before, npts_after)
             rowmask == mask_rows(masked_outside(idx_ep, 0, n))
         IN  [kind |-> "ok", exc |-> "",
              idx_ep |-> compress_rows(idx_ep, rowmask),
              idx_ep_nomask |-> nonzero_rows(idx_ep, rowmask)]

\* a buffer of n >= 1 samples, with events in and around it
GciArgs ==
    [n : 1..MaxN,
     idx : SeqsOf(-1..(MaxN + 1), 0, MaxEvents),
     npts_before : 0..MaxSpan,
     npts_after : 0..MaxSpan]

----------------------------------------------------------------------------
(* trimbothstd (lines 171-201) *)

RECURSIVE Insert(_, _)
Insert(v, s) ==
    IF s = <<>> THEN <<v>>
    ELSE IF v <= Head(s) THEN <<v>> \o s
    ELSE <<Head(s)>> \o Insert(v, Tail(s))

RECURSIVE Sorted(_)
Sorted(s) == IF s = <<>> THEN <<>> ELSE Insert(Head(s), Sorted(Tail(s)))

\* a[b:e] of Python for b, e >= 0: the elements at 0-based positions
\* b .. min(e, len(a)) - 1, none when that range is empty
PySlice(a, b, e) ==
    LET hi == Min2(e, Len(a))
    IN  IF b >= hi THEN <<>> ELSE SubSeq(a, b + 1, hi)

\* a float result: tag "val" is the fraction num/den, tag "nan" is NaN
Val(num, den) == [tag |-> "val", num |-> num, den |-> den]
NaN == [tag |-> "nan", num |-> 0, den |-> 1]

\* a.std(ddof=1), reported as its square: the sum of squared deviations over
\* len(a) - 1, as the fraction (k*sum(a^2) - sum(a)^2) / (k*(k-1)).  With
\* fewer than two values the division is 0/0 (or a mean of nothing): numpy
\* warns and returns NaN.
std_ddof1(a) ==
    LET k == Len(a)
    IN  IF k < 2 THEN NaN
        ELSE Val(k * SeqSum([i \in 1..k |-> a[i] * a[i]]) - SeqSum(a) * SeqSum(a),
                 k * (k - 1))

\* int(cut * n) for cut = num/den
lowercut_of(cut, n) == Trunc(cut.num * n, cut.den)

\* the call.  np.partition(x, (lowercut, uppercut - 1)) raises ValueError
\* when an index is out of bounds for x, that is outside -n .. n-1; the
\* slice of the partitioned array holds the values at sorted positions
\* lowercut .. uppercut - 1.
trimbothstd(x, cut) ==
    LET n == Len(x)
        lowercut == lowercut_of(cut, n)
        uppercut == n - lowercut
        kth_ok(k) == -n <= k /\ k <= n - 1
    IN  IF ~(kth_ok(lowercut) /\ kth_ok(uppercut - 1))
        THEN [kind |-> "error", exc |-> "ValueError", value |-> NaN]
        ELSE [kind |-> "ok", exc |-> "",
              value |-> std_ddof1(PySlice(Sorted(x), lowercut, Max2(uppercut, 0)))]

\* proportions in [0, 1] with exact float products
CutDens == {2, 8}
TrimSamples == {0, 1, 3}

TrimArgs ==
    [x : SeqsOf(TrimSamples, 1, MaxN),
     cut : UNION {[num : 0..d, den : {d}] : d \in CutDens}]

----------------------------------------------------------------------------
(* sliding_window (lines 204-277) *)

\* a duration in seconds times sf is a whole number of samples
IsWhole(d, sf) == (d.num * sf) % d.den = 0
\* that number of samples
InSamples(d, sf) == (d.num * sf) \div d.den

\* s[axis] of a Python list or tuple: position of a valid index (1-based
\* here), 0 when the index is out of range (IndexError)
PyIndex(s, axis) ==
    IF 0 <= axis /\ axis < Len(s) THEN axis + 1
    ELSE IF -Len(s) <= axis /\ axis < 0 THEN axis + Len(s) + 1
    ELSE 0

RECURSIVE SeqProd(_)
SeqProd(s) == IF s = <<>> THEN 1 ELSE Head(s) * SeqProd(Tail(s))

\* data.strides of a C-contiguous array of this shape, in elements: the
\* product of the extents of the later axes
c_strides(shape) ==
    [d \in 1..Len(shape) |-> SeqProd(SubSeq(shape, d + 1, Len(shape)))]

\* The (extent, window, step) triples, for extents and steps up to 12, at
\* which the double-precision value of extent/step - window/step + 1 lies
\* just below the integer the exact quotient is, so that its floor is one
\* less: 8/3 - 5/3 + 1 = 1.9999999999999998.
FloorLoss == {<<8, 5, 3>>}

\* np.ceil in place of np.floor
n_windows_ceil(extent, step, window) == CeilDiv(extent - window, step) + 1

\* np.floor(extent / step - window / step + 1).astype(int)
n_windows(extent, step, window) ==
    (extent - window + step) \div step
        - (IF <<extent, window, step>> \in FloorLoss THEN 1 ELSE 0)

\* the call on an array of the given shape (1-D or 2-D, C-contiguous)
sliding_window(shape, sf, window, step, axis) ==
    LET ndim == Len(shape)
        Err(exc, msg) == [kind |-> "error", exc |-> exc, msg |-> msg,
                          shape |-> <<>>, strides |-> <<>>, t |-> <<>>]
        stepd == IF step.none THEN window ELSE [num |-> step.num, den |-> step.den]
        W == InSamples(window, sf)
        S == InSamples(stepd, sf)
        ax == PyIndex(shape, axis)
    IN  IF ~(axis <= ndim)
        THEN Err("AssertionError", "Axis value out of range.")
        ELSE IF ~IsWhole(window, sf)
        THEN Err("AssertionError", "window * sf must be a whole number.")
        ELSE IF ~IsWhole(stepd, sf)
        THEN Err("AssertionError", "step * sf must be a whole number.")
        ELSE IF ~(S >= 1)
        THEN Err("AssertionError", "Stepsize may not be zero or negative.")
        ELSE IF ax = 0
        THEN Err("IndexError", "tuple index out of range")
        ELSE IF ~(W < shape[ax])
        THEN Err("AssertionError",
                 "Sliding window size may not exceed size of selected axis")
        ELSE LET strides == c_strides(shape)
                 vshape == [shape EXCEPT ![ax] = n_windows(shape[ax], S, W)]
                               \o <<W>>
                 vstrides == [strides EXCEPT ![ax] = @ * S] \o <<strides[ax]>>
             IN  [kind |-> "ok", exc |-> "", msg |-> "",
                  shape |-> vshape, strides |-> vstrides,
                  \* np.arange(strided.shape[-2]) * (step / sf)
                  t |-> [k \in 1..vshape[Len(vshape) - 1] |->
                            [num |-> (k - 1) * S, den |-> sf]]]

SwArgs ==
    [shape : SeqsOf(1..MaxLen, 1, 1) \cup SeqsOf(1..MaxDim, 2, 2),
     sf : Sfs,
     window : [num : 0..MaxWin, den : Dens],
     step : [none : {FALSE}, num : 0..MaxWin, den : Dens]
                \cup {[none |-> TRUE, num |-> 0, den |-> 1]},
     axis : -3..2]

----------------------------------------------------------------------------
(* moving_transform (lines 12-141) *)

\* The reductions modelled are those computed in this file with numpy; 'rms',
\* 'slope', 'covar' and 'corr' call kernels of another module.
Methods == {"mean", "min", "max", "ptp", "prop_above_zero"}

\* lines 69-70: a step of 0 means one sample
step_of(step, sf) == IF step.num = 0 THEN [num |-> 1, den |-> sf] ELSE step

\* The <<n, sf>>, for n up to 7, sf in MtSfs and the steps 1 / sf and
\* num/den with num up to 5 and den in Dens, at which the double-precision
\* quotient (n / sf) / step lies just above the integer the exact quotient
\* is, so that its ceiling is one more; all are at step = 1 / sf:
\* (5 / 3) / (1 / 3) = 5.000000000000001.
ArangeGain == {<<5, 3>>, <<7, 3>>}

\* idx.size for idx = np.arange(0, n / sf, step): the ceiling of the double
\* (n / sf) / step
arange_size(n, sf, step) ==
    CeilDiv(n * step.den, sf * step.num)
        + (IF step.num * sf = step.den /\ <<n, sf>> \in ArangeGain
           THEN 1 ELSE 0)

\* The <<k, sign, sf, window in seconds>>, over the same inputs and the
\* windows num/den with num up to 5 and den in Dens, at which the double
\* (k * step + sign * window / 2) * sf lies just below the integer the exact
\* product is, so that its truncation is one less; all are at step = 1 / sf:
\* (4 * (1 / 3) + 1) * 3 = 6.999999999999999.
TruncLoss ==
    {<<4, -1, 3, 2>>, <<4, 1, 3, 2>>, <<5, -1, 3, 2>>,
     <<7, -1, 3, 0>>, <<7, 1, 3, 0>>, <<7, -1, 3, 2>>, <<7, -1, 3, 4>>}

\* ((idx[k] + sign * halfdur) * sf).astype(int) for idx[k] = k * step and
\* halfdur = window / 2, k counted from 0
raw_bound(k, sign, sf, window, step) ==
    Trunc(sf * (2 * k * step.num * window.den + sign * window.num * step.den),
          2 * step.den * window.den)
        - (IF /\ step.num * sf = step.den
              /\ window.num % window.den = 0
              /\ <<k, sign, sf, window.num \div window.den>> \in TruncLoss
           THEN 1 ELSE 0)

\* beg[beg < 0] = 0
clamp_beg(b) == IF b < 0 THEN 0 ELSE b
\* end[end > last] = last
clamp_end(e, last) == IF e > last THEN last ELSE e

\* the bounds with last = n in place of n - 1
mt_bounds_last_n(n, sf, window, step) ==
    LET st == step_of(step, sf)
        size == arange_size(n, sf, st)
    IN  [beg |-> [k \in 1..size |-> clamp_beg(raw_bound(k - 1, -1, sf, window, st))],
         end |-> [k \in 1..size |->
                     clamp_end(raw_bound(k - 1, 1, sf, window, st), n)]]

\* lines 72-83: the beg and end vectors
mt_bounds(n, sf, window, step) ==
    LET st == step_of(step, sf)
        size == arange_size(n, sf, st)
    IN  [beg |-> [k \in 1..size |-> clamp_beg(raw_bound(k - 1, -1, sf, window, st))],
         end |-> [k \in 1..size |->
                     clamp_end(raw_bound(k - 1, 1, sf, window, st), n - 1)]]

\* line 87: np.column_stack((beg, end)).mean(1) / sf
midpoints(beg, end, sf) ==
    [k \in 1..Len(beg) |-> Val(beg[k] + end[k], 2 * sf)]

RECURSIVE SeqMin(_)
SeqMin(s) == IF Len(s) = 1 THEN s[1] ELSE Min2(Head(s), SeqMin(Tail(s)))
RECURSIVE SeqMax(_)
SeqMax(s) == IF Len(s) = 1 THEN s[1] ELSE Max2(Head(s), SeqMax(Tail(s)))

\* the exception func(w) raises on the window w, "" when it returns: np.min,
\* np.max and np.ptp raise ValueError on an empty array, 0 / 0 is a
\* ZeroDivisionError; np.mean of an empty array warns and returns NaN
func_raises(method, w) ==
    IF Len(w) > 0 \/ method = "mean" THEN ""
    ELSE IF method = "prop_above_zero" THEN "ZeroDivisionError"
    ELSE "ValueError"

\* lines 89-107: func(w) where it returns
func(method, w) ==
    IF Len(w) = 0 THEN NaN
    ELSE CASE method = "mean" -> Val(SeqSum(w), Len(w))
           [] method = "min" -> Val(SeqMin(w), 1)
           [] method = "max" -> Val(SeqMax(w), 1)
           [] method = "ptp" -> Val(SeqMax(w) - SeqMin(w), 1)
           [] OTHER -> Val(Cardinality({i \in 1..Len(w) : w[i] >= 0}), Len(w))

\* lines 135-139: interp1d(t, out, kind='cubic', bounds_error=False,
\* fill_value=0, assume_sorted=True) evaluated at j / sf, j = 0 .. n-1.
\* A grid point outside [t[0], t[-1]] gets the fill value 0.  Inside, the
\* value of the cubic through the points is not computed here: it is "cubic",
\* or NaN when out holds a NaN (interp1d then returns NaN everywhere inside).
Cubic == [tag |-> "cubic", num |-> 0, den |-> 1]

interp_out(n, sf, t, out) ==
    LET hasnan == \E k \in 1..Len(out) : out[k].tag = "nan"
    IN  [j \in 1..n |->
            IF 2 * (j - 1) < t[1].num \/ 2 * (j - 1) > t[Len(t)].num
            THEN Val(0, 1)
            ELSE IF hasnan THEN NaN ELSE Cubic]

\* interp1d raises ValueError unless it is given at least 4 points whose
\* abscissae strictly increase
interp_ok(t) ==
    /\ Len(t) >= 4
    /\ \A k \in 1..(Len(t) - 1) : t[k].num < t[k + 1].num

\* t = np.arange(n) / sf
dense_t(n, sf) == [j \in 1..n |-> Val(j - 1, sf)]

\* the call
moving_transform(x, sf, window, step, method, interp) ==
    LET n == Len(x)
        st == step_of(step, sf)
        b == mt_bounds(n, sf, window, step)
        size == Len(b.beg)
        t == midpoints(b.beg, b.end, sf)
        win(k) == PySlice(x, b.beg[k], b.end[k])
        raising == {k \in 1..size : func_raises(method, win(k)) # ""}
        out == [k \in 1..size |-> func(method, win(k))]
        Err(exc) == [kind |-> "error", exc |-> exc, t |-> <<>>, out |-> <<>>]
    IN  IF raising # {}
        THEN Err(func_raises(method,
                             win(CHOOSE k \in raising : \A m \in raising : k <= m)))
        ELSE IF interp /\ ~(st.num * sf = st.den)
        THEN IF interp_ok(t)
             THEN [kind |-> "ok", exc |-> "",
                   t |-> dense_t(n, sf), out |-> interp_out(n, sf, t, out)]
             ELSE Err("ValueError")
        ELSE [kind |-> "ok", exc |-> "", t |-> t, out |-> out]

Durations == [num : 0..MaxNum, den : Dens]

MtArgs ==
    [x : SeqsOf(Samples, 0, MaxN),
     sf : MtSfs,
     window : Durations,
     step : Durations,
     method : Methods,
     interp : BOOLEAN]

----------------------------------------------------------------------------
(* The calls *)

NoLocals == [beg |-> <<>>, end |-> <<>>]
NoRet == [kind |-> "none"]

Init ==
    /\ pc = "call"
    /\ locals = NoLocals
    /\ ret = NoRet
    /\ \/ fn = "get_centered_indices" /\ args \in GciArgs
       \/ fn = "trimbothstd" /\ args \in TrimArgs
       \/ fn = "sliding_window" /\ args \in SwArgs
       \/ fn = "moving_transform" /\ args \in MtArgs

CallGetCenteredIndices ==
    /\ pc = "call"
    /\ fn = "get_centered_indices"
    /\ ret' = get_centered_indices(args.n, args.idx,
                                   args.npts_before, args.npts_after)
    /\ pc' = "done"
    /\ UNCHANGED <<fn, args, locals>>

CallTrimbothstd ==
    /\ pc = "call"
    /\ fn = "trimbothstd"
    /\ ret' = trimbothstd(args.x, args.cut)
    /\ pc' = "done"
    /\ UNCHANGED <<fn, args, locals>>

CallSlidingWindow ==
    /\ pc = "call"
    /\ fn = "sliding_window"
    /\ ret' = sliding_window(args.shape, args.sf, args.window, args.step,
                             args.axis)
    /\ pc' = "done"
    /\ UNCHANGED <<fn, args, locals>>

CallMovingTransform ==
    /\ pc = "call"
    /\ fn = "moving_transform"
    /\ locals' = mt_bounds(Len(args.x), args.sf, args.window, args.step)
    /\ ret' = moving_transform(args.x, args.sf, args.window, args.step,
                               args.method, args.interp)
    /\ pc' = "done"
    /\ UNCHANGED <<fn, args>>

Next ==
    \/ CallMovingTransform
    \/ CallGetCenteredIndices
    \/ CallTrimbothstd
    \/ CallSlidingWindow

Spec == Init /\ [][Next]_vars

----------------------------------------------------------------------------
(* Claims: moving_transform *)

MtDone == pc = "done" /\ fn = "moving_transform"

MtN == Len(args.x)
\* the step in force: a step of 0 stands for 1 / sf
MtStep == IF args.step.num = 0 THEN [num |-> 1, den |-> args.sf] ELSE args.step
\* the number of grid points 0, step, 2*step, ... below n / sf
GridPoints ==
    Cardinality({k \in 0..(MtN * MtStep.den) :
                    k * MtStep.num * args.sf < MtN * MtStep.den})
\* the interpolation of lines 135-139 is performed
Interpolated == args.interp /\ MtStep.num * args.sf # MtStep.den
\* the buffer is constant, of value c
ConstantBuffer(c) == MtN >= 1 /\ \A i \in 1..MtN : args.x[i] = c
\* the samples window k is reduced over: x[beg[k]:end[k]]
MtWindow(k) == PySlice(args.x, locals.beg[k], locals.end[k])

\* C4: with method 'mean' on a buffer whose samples all equal c, every entry
\* of the statistic vector equals c, for any window and step.
C4_MeanOfConstantIsConstant ==
    \A c \in Samples :
        (MtDone /\ args.method = "mean" /\ ~args.interp /\ ConstantBuffer(c)) =>
            /\ ret.kind = "ok"
            /\ \A k \in 1..Len(ret.out) :
                  ret.out[k].tag = "val" /\ ret.out[k].num = c * ret.out[k].den

\* C5: when the call returns, the time vector and the statistic vector have
\* the same length: the number of grid points when no interpolation is
\* performed, and n when interp is true.
C5_TimeAndOutputSameLength ==
    (MtDone /\ ret.kind = "ok") =>
        /\ Len(ret.t) = Len(ret.out)
        /\ ~Interpolated => Len(ret.out) = GridPoints
        /\ args.interp => Len(ret.out) = MtN

\* C6: for a buffer of n >= 1 samples, every grid point has one pair of
\* bounds, 0 <= beg <= end <= n-1, a bound below 0 having become 0 and a
\* bound above n-1 having become n-1; no grid point is dropped, the call's
\* output has one entry per pair, whose time is (beg + end) / 2 / sf of the
\* clamped pair.
C6_ClampedBounds ==
    (MtDone /\ MtN >= 1) =>
        /\ Len(locals.beg) >= GridPoints /\ Len(locals.end) = Len(locals.beg)
        /\ \A k \in 1..Len(locals.beg) :
              LET rb == raw_bound(k - 1, -1, args.sf, args.window, MtStep)
                  re == raw_bound(k - 1, 1, args.sf, args.window, MtStep)
              IN  /\ 0 <= locals.beg[k] /\ locals.beg[k] <= locals.end[k]
                  /\ locals.end[k] <= MtN - 1
                  /\ locals.beg[k] = (IF rb < 0 THEN 0 ELSE rb)
                  /\ locals.end[k] = (IF re > MtN - 1 THEN MtN - 1 ELSE re)
        /\ (ret.kind = "ok" /\ ~Interpolated) =>
              /\ Len(ret.out) = Len(locals.beg) /\ Len(ret.t) = Len(locals.beg)
              /\ \A k \in 1..Len(locals.beg) :
                    /\ ret.t[k].tag = "val"
                    /\ ret.t[k].num * 2 * args.sf
                          = (locals.beg[k] + locals.end[k]) * ret.t[k].den

\* C10: the samples a window is reduced over are x[beg], ..., x[beg+m-1],
\* each at an index in [0, n-2]: the final sample x[n-1] is in no window's
\* reduction.  (A window of no sample, m = 0, reads nothing.)
C10_LastSampleNeverRead ==
    MtDone =>
        \A k \in 1..Len(locals.beg) :
            LET w == MtWindow(k)
            IN  /\ locals.beg[k] >= 0
                /\ \A i \in 0..(Len(w) - 1) :
                      /\ locals.beg[k] + i \in 0..(MtN - 2)
                      /\ w[i + 1] = args.x[locals.beg[k] + i + 1]

\* a window that reaches the end of the buffer and is reduced over every
\* sample from beg on but the last
C10_Witness ==
    /\ MtDone /\ ret.kind = "ok" /\ MtN >= 3
    /\ \E k \in 1..Len(locals.beg) :
          /\ raw_bound(k - 1, 1, args.sf, args.window, MtStep) >= MtN
          /\ locals.end[k] = MtN - 1
          /\ Len(MtWindow(k)) = MtN - 1 - locals.beg[k]
          /\ Len(MtWindow(k)) >= 2

----------------------------------------------------------------------------
(* Claims: get_centered_indices *)

GciDone == pc = "done" /\ fn = "get_centered_indices"

\* the window of event position k (1-based) of the call
EventRow(k) == rng(args.idx[k], args.npts_before, args.npts_after)

RowInBounds(row, n) == \A j \in 1..Len(row) : 0 <= row[j] /\ row[j] <= n - 1

\* C1: the row of event k is in the returned matrix iff every element of it
\* lies in [0, n-1], so every returned index is a valid index into data.
C1_RowKeptIffInBounds ==
    (GciDone /\ ret.kind = "ok") =>
        /\ \A k \in 1..Len(args.idx) :
              (\E j \in 1..Len(ret.idx_ep) : ret.idx_ep[j] = EventRow(k))
                  <=> RowInBounds(EventRow(k), args.n)
        /\ \A j \in 1..Len(ret.idx_ep) : RowInBounds(ret.idx_ep[j], args.n)

\* C2: the matrix and the kept-positions vector have the same number of
\* rows, row j is the window of event kept[j], and kept is strictly
\* increasing.
C2_RowsMatchKept ==
    (GciDone /\ ret.kind = "ok") =>
        /\ Len(ret.idx_ep) = Len(ret.idx_ep_nomask)
        /\ \A j \in 1..Len(ret.idx_ep_nomask) :
              /\ ret.idx_ep_nomask[j] + 1 \in 1..Len(args.idx)
              /\ j <= Len(ret.idx_ep)
              /\ ret.idx_ep[j] = EventRow(ret.idx_ep_nomask[j] + 1)
        /\ \A i, j \in 1..Len(ret.idx_ep_nomask) :
              i < j => ret.idx_ep_nomask[i] < ret.idx_ep_nomask[j]

\* C9: an empty event list returns an empty matrix and an empty
\* kept-positions vector, and raises nothing.
C9_EmptyEventsNoError ==
    (GciDone /\ args.idx = <<>>) =>
        ret.kind = "ok" /\ ret.idx_ep = <<>> /\ ret.idx_ep_nomask = <<>>

----------------------------------------------------------------------------
(* Claims: trimbothstd *)

TrimDone == pc = "done" /\ fn = "trimbothstd"

\* the number of values left after trimming: n - 2 * floor(cut * n)
Remaining == Len(args.x) - 2 * lowercut_of(args.cut, Len(args.x))

\* C7: when fewer than 2 values are left after trimming, the call fails with
\* an error instead of returning a value.
C7_TooFewValuesFails ==
    (TrimDone /\ Remaining < 2) => ret.kind = "error"

----------------------------------------------------------------------------
(* Claims: sliding_window *)

SwDone == pc = "done" /\ fn = "sliding_window"

\* the arguments of the call in samples, and the chosen axis (1-based)
SwStep == IF args.step.none THEN args.window
          ELSE [num |-> args.step.num, den |-> args.step.den]
SwW == InSamples(args.window, args.sf)
SwS == InSamples(SwStep, args.sf)
SwAx == PyIndex(args.shape, args.axis)

\* the offset, in elements from the start of the storage, of the element at
\* index ix (0-based, one entry per axis) of an array with these strides
Offset(strides, ix) == SeqSum([d \in 1..Len(ix) |-> ix[d] * strides[d]])

\* the indices of an array of this shape
Indices(shape) ==
    {ix \in [1..Len(shape) -> 0..Max2(MaxLen, MaxDim)] :
        \A d \in 1..Len(shape) : ix[d] < shape[d]}

\* C3: element j of window i of the view (at the other axes' index) is the
\* buffer's element i*S + j along the chosen axis, and each window ends
\* inside the buffer: i*S + W <= L.  The number of windows is
\* floor(L/S - W/S + 1): the exact floor((L - W)/S) + 1, or one less where
\* the floating-point value falls just below it.
C3_WindowsAreBufferSlices ==
    (SwDone /\ ret.kind = "ok") =>
        LET L == args.shape[SwAx]
            nd == Len(args.shape)
        IN  /\ Len(ret.shape) = nd + 1
            /\ ret.shape[nd + 1] = SwW
            /\ ret.shape[SwAx] \in {(L - SwW) \div SwS, (L - SwW) \div SwS + 1}
            /\ ret.shape[SwAx] >= 1
            /\ \A d \in 1..nd : d # SwAx => ret.shape[d] = args.shape[d]
            /\ \A i \in 0..(ret.shape[SwAx] - 1) : i * SwS + SwW <= L
            /\ \A vx \in Indices(ret.shape) :
                  LET dx == [d \in 1..nd |->
                                IF d = SwAx THEN vx[d] * SwS + vx[nd + 1]
                                ELSE vx[d]]
                  IN  /\ dx \in Indices(args.shape)
                      /\ Offset(ret.strides, vx)
                            = Offset(c_strides(args.shape), dx)

\* two overlapping windows, the last ending before the end of the buffer
C3_Witness ==
    /\ SwDone /\ ret.kind = "ok"
    /\ args.shape = <<7>> /\ SwW = 4 /\ SwS = 2 /\ ret.shape = <<2, 4>>

\* a count the floating-point rounding makes one less than the exact floor
C3_FloorLossReached ==
    /\ SwDone /\ ret.kind = "ok"
    /\ args.shape = <<8>> /\ SwW = 5 /\ SwS = 3 /\ ret.shape = <<1, 5>>

\* the messages of the constraints the call violates
SwViolated ==
    {m \in {"Axis value out of range.",
            "window * sf must be a whole number.",
            "step * sf must be a whole number.",
            "Stepsize may not be zero or negative.",
            "Sliding window size may not exceed size of selected axis"} :
        \/ m = "Axis value out of range." /\ SwAx = 0
        \/ m = "window * sf must be a whole number."
              /\ ~IsWhole(args.window, args.sf)
        \/ m = "step * sf must be a whole number."
              /\ ~IsWhole(SwStep, args.sf)
        \/ m = "Stepsize may not be zero or negative."
              /\ SwStep.num * args.sf < SwStep.den
        \/ m = "Sliding window size may not exceed size of selected axis"
              /\ SwAx # 0
              /\ args.window.num * args.sf
                    >= args.window.den * args.shape[SwAx]}

\* C8: a call that violates a precondition (whole window and step samples,
\* step >= 1, window < extent, axis in range) is rejected with an error
\* naming a violated constraint, and returns no view.
C8_ViolationsRejectedByName ==
    (SwDone /\ SwViolated # {}) =>
        ret.kind = "error" /\ ret.msg \in SwViolated

====
